---- MODULE Spec2Model ----
(***************************************************************************)
(* State-machine model of examples/weather/weather.py: the startup code,   *)
(* the weather scraper (get_weather, get_weather_icon) and the main loop    *)
(* (weather refresh, sensor read, daily extremes, drawing, display).        *)
(*                                                                         *)
(* Temperatures are whole degrees Celsius.  The thermometer position is a   *)
(* Python float; it is kept here as an exact fraction (numerator over the   *)
(* denominator 32 - 20).  The wall clock (time.time()) and the local        *)
(* calendar day (datetime.today()) are environment variables that only      *)
(* move forward.                                                           *)
(***************************************************************************)
EXTENDS Integers, Sequences, FiniteSets, TLC

VARIABLES
    pc,            \* position of the script in the main loop
    exc,           \* the exception that ended the script ("" while running)
    now,           \* time.time(), in seconds
    today,         \* the local calendar day, counted from the day of startup
    last_checked,  \* line 156 / 163
    weather,       \* the snapshot the last get_weather call returned
    weather_icon,  \* line 126 / 162
    icon_order,    \* the order in which "for icon in icon_map" visits the keys
    low_temp,      \* line 152 / 179 / 184
    high_temp,     \* line 153 / 181 / 185
    curr_date,     \* line 154 / 183
    temp,          \* line 175
    temp_bound,    \* whether the name temp has been assigned yet
    read_ok,       \* this tick's sensor.get_sensor_data(): "pending", "yes", "no"
    frame,         \* the bitmap "background" being composed in this tick
    pushes,        \* oled.display calls made in this tick
    last_call,     \* history: the time the latest get_weather call started
    last_read_day, \* history: the calendar day of the latest successful read
    day_changed,   \* history: this tick's read is on another day than the one before
    low2,          \* shadow: low bound kept by two independent ifs
    high2,         \* shadow: high bound kept by two independent ifs
    minR,          \* history: the least reading since the extremes were last reset
    maxR,          \* history: the greatest reading since the extremes were last reset
    refreshed,     \* history: this tick called get_weather and it returned
    icon_before,   \* history: weather_icon when this tick's get_weather call started
    bar_prev       \* history: the previous <<temp, bar position>> drawn (bar runs)

vars == <<pc, exc, now, today, last_checked, weather, weather_icon, icon_order,
          low_temp, high_temp, curr_date, temp, temp_bound, read_ok, frame,
          pushes, last_call, last_read_day, day_changed, low2, high2, minR,
          maxR, refreshed, icon_before, bar_prev>>

----------------------------------------------------------------------------
(* Bounds of the model *)

TempSpan == 2
ClockStep == 20
MaxTime == 160
MaxDay == 2
DaysInMonth == 2
BarTempSpan == 20

(* Constants of the program *)

RefreshInterval == 60
HTTP_OK == 200
BarTop == 43
BarBottom == 86
RefLow == 20
RefHigh == 32

None == "None"

Temps == (RefLow - 1)..(RefLow - 1 + TempSpan)
BarTemps == (RefLow - 4)..(RefLow - 4 + BarTempSpan)

Min(a, b) == IF a < b THEN a ELSE b
Max(a, b) == IF a > b THEN a ELSE b

----------------------------------------------------------------------------
(* The calendar: .day of a date is the day of the month. *)

DayOfMonth(d) == (d % DaysInMonth) + 1

----------------------------------------------------------------------------
(* The weather scraper *)

\* A dict is a sequence of <<key, value>> pairs; {} is the empty sequence.
EmptyWeather == << >>

Truthy(d) == Len(d) > 0

Lookup(d, k) == d[CHOOSE i \in 1..Len(d) : d[i][1] = k][2]

\* An alt text is a sequence of chunks: a run of whitespace " " or a word.
\* str.split() without arguments drops the whitespace and keeps the words.
split(s) == SelectSeq(s, LAMBDA c : c # " ")

NoImg == [present |-> FALSE, has_alt |-> FALSE, alt |-> << >>]
ImgNoAlt == [present |-> TRUE, has_alt |-> FALSE, alt |-> << >>]
Img(a) == [present |-> TRUE, has_alt |-> TRUE, alt |-> a]

AltTexts == { << >>, <<" ">>,
              <<"rain", " ", "Icon">>,
              <<" ", "clear-day", " ", "Icon">>,
              <<"hail", " ", "Icon">> }

Spans == {[img |-> NoImg], [img |-> ImgNoAlt]} \cup {[img |-> Img(a)] : a \in AltTexts}

\* A response: its status code and the <span class="currently"> elements of its body.
Responses ==
    [status_code : {HTTP_OK, 404, 503},
     currently : {<< >>} \cup {<<s>> : s \in Spans}
                         \cup {<<s, [img |-> NoImg]>> : s \in Spans}]

Return(w) == [raised |-> FALSE, exc |-> "", weather |-> w]
Raise(e) == [raised |-> TRUE, exc |-> e, weather |-> EmptyWeather]

get_weather(res) ==
    IF res.status_code = HTTP_OK
    THEN IF Len(res.currently) = 0 THEN Raise("IndexError")
         ELSE LET img == res.currently[1].img IN
              IF ~img.present THEN Raise("TypeError")
              ELSE IF ~img.has_alt THEN Raise("KeyError")
              ELSE IF Len(split(img.alt)) = 0 THEN Raise("IndexError")
              ELSE Return(<< <<"summary", split(img.alt)[1]>> >>)
    ELSE Return(EmptyWeather)

icon_map ==
    [snow  |-> <<"snow", "sleet">>,
     rain  |-> <<"rain">>,
     cloud |-> <<"fog", "cloudy", "partly-cloudy-day", "partly-cloudy-night">>,
     sun   |-> <<"clear-day", "clear-night">>,
     storm |-> << >>,
     wind  |-> <<"wind">>]

Categories == DOMAIN icon_map

\* The order of the dict literal (the iteration order of a modern interpreter).
SourceOrder == <<"snow", "rain", "cloud", "sun", "storm", "wind">>

\* Every iteration order a dict of these keys can have.
Orders == {o \in [1..Cardinality(Categories) -> Categories] :
              \A i, j \in DOMAIN o : i # j => o[i] # o[j]}

\* The icons pre-loaded from icons/*.png, keyed by file stem.
icons ==
    [snow  |-> "icons/snow.png",  rain |-> "icons/rain.png",
     cloud |-> "icons/cloud.png", sun  |-> "icons/sun.png",
     storm |-> "icons/storm.png", wind |-> "icons/wind.png"]

InList(x, s) == \E i \in 1..Len(s) : s[i] = x

get_weather_icon_key(w, order) ==
    IF Truthy(w)
    THEN LET summary == Lookup(w, "summary")
             hits == {i \in 1..Len(order) : order[i] = summary}
         IN  IF hits = {} THEN None
             ELSE icons[order[CHOOSE i \in hits : \A j \in hits : i <= j]]
    ELSE None

get_weather_icon(w, order) ==
    IF Truthy(w)
    THEN LET summary == Lookup(w, "summary")
             hits == {i \in 1..Len(order) : InList(summary, icon_map[order[i]])}
         IN  IF hits = {} THEN None
             ELSE icons[order[CHOOSE i \in hits : \A j \in hits : i <= j]]
    ELSE None

refreshed_icon_stale(old, w, order) ==
    IF get_weather_icon(w, order) = None THEN old ELSE get_weather_icon(w, order)

\* Line 162: the value assigned to weather_icon by a refresh.
refreshed_icon(old, w, order) == get_weather_icon(w, order)

refresh_due_inclusive(t, checked) == t - checked >= RefreshInterval

\* Line 161.
refresh_due(t, checked) == t - checked > RefreshInterval

----------------------------------------------------------------------------
(* Daily extremes *)

update_extremes_flipped_low(lo, hi, t) ==
    IF t > lo THEN <<t, hi>>
    ELSE IF t > hi THEN <<lo, t>>
    ELSE <<lo, hi>>

update_extremes_elif_low(lo, hi, t) ==
    IF t < lo THEN <<t, hi>>
    ELSE IF t > lo THEN <<lo, t>>
    ELSE <<lo, hi>>

\* Lines 178-181: the if/elif update of <<low_temp, high_temp>>.
update_extremes(lo, hi, t) ==
    IF t < lo THEN <<t, hi>>
    ELSE IF t > hi THEN <<lo, t>>
    ELSE <<lo, hi>>

\* The same update written as two independent ifs.
update_two_ifs(lo, hi, t) ==
    <<IF t < lo THEN t ELSE lo, IF t > hi THEN t ELSE hi>>

----------------------------------------------------------------------------
(* The thermometer bar *)

BarDen == RefHigh - RefLow

temp_offset_floor_div(t) ==
    BarBottom * BarDen - (BarBottom - BarTop) * ((t - RefLow) \div BarDen) * BarDen

\* Line 209: temp_offset, as the numerator of a fraction over BarDen.
temp_offset(t) == BarBottom * BarDen - (BarBottom - BarTop) * (t - RefLow)

BlankFrame == [icon |-> None, readout |-> << >>, clock |-> "", bar |-> << >>]

----------------------------------------------------------------------------
(* Startup: lines 125-156, up to the first evaluation of "while True". *)

\* The startup get_weather call (line 126) has returned, and the startup sensor
\* read (line 150) has left a temperature in sensor.data: low_temp and high_temp
\* start at that reading.  The name temp is not assigned before the loop.
\* The snapshots a startup get_weather call that returned can have produced.
StartupWeather == {get_weather(r).weather : r \in {q \in Responses : ~get_weather(q).raised}}

Init ==
    /\ pc = "refresh"
    /\ exc = ""
    /\ today = 0
    /\ last_call = 0
    /\ now \in {0, ClockStep}
    /\ last_checked = now
    /\ icon_order = SourceOrder
    /\ weather \in StartupWeather
    /\ weather_icon = get_weather_icon(weather, icon_order)
    /\ low_temp \in Temps
    /\ high_temp = low_temp
    /\ curr_date = DayOfMonth(today)
    /\ temp = 0
    /\ temp_bound = FALSE
    /\ read_ok = "pending"
    /\ frame = BlankFrame
    /\ pushes = 0
    /\ last_read_day = today
    /\ day_changed = FALSE
    /\ low2 = low_temp
    /\ high2 = low_temp
    /\ minR = low_temp
    /\ maxR = low_temp
    /\ refreshed = FALSE
    /\ icon_before = None
    /\ bar_prev = << >>

----------------------------------------------------------------------------
(* The environment *)

envVars == <<now, today>>
weatherVars == <<weather, weather_icon, icon_order, last_checked, last_call>>
sensorVars == <<low_temp, high_temp, curr_date, temp, temp_bound>>
shadowVars == <<low2, high2, minR, maxR>>
dayHistory == <<last_read_day, day_changed>>
tickHistory == <<refreshed, icon_before>>

Running == pc \notin {"raised"}

\* Wall-clock time passes.
Clock ==
    /\ Running
    /\ now + ClockStep <= MaxTime
    /\ now' = now + ClockStep
    /\ UNCHANGED <<pc, exc, today, weatherVars, sensorVars, read_ok, frame, pushes,
                   dayHistory, shadowVars, tickHistory, bar_prev>>

\* Local midnight passes.
Midnight ==
    /\ Running
    /\ today < MaxDay
    /\ today' = today + 1
    /\ UNCHANGED <<pc, exc, now, weatherVars, sensorVars, read_ok, frame, pushes,
                   dayHistory, shadowVars, tickHistory, bar_prev>>

----------------------------------------------------------------------------
(* The main loop, lines 159-215 *)

\* Line 161: the top of a tick; the throttle test.
Refresh ==
    /\ pc = "refresh"
    /\ IF refresh_due(now, last_checked)
       THEN pc' = "fetching" /\ last_call' = now /\ icon_before' = weather_icon
       ELSE pc' = "paste" /\ icon_before' = None /\ UNCHANGED last_call
    /\ read_ok' = "pending"
    /\ pushes' = 0
    /\ day_changed' = FALSE
    /\ refreshed' = FALSE
    /\ UNCHANGED <<exc, envVars, weather, weather_icon, icon_order, last_checked,
                   sensorVars, frame, last_read_day, shadowVars, bar_prev>>

\* Lines 162-163: get_weather returns (or raises), the icon is looked up and
\* last_checked is read from the clock.
FetchReturn ==
    /\ pc = "fetching"
    /\ \E res \in Responses :
         LET r == get_weather(res) IN
         IF r.raised
         THEN /\ pc' = "raised"
              /\ exc' = r.exc
              /\ UNCHANGED <<weather, weather_icon, last_checked, refreshed>>
         ELSE /\ pc' = "paste"
              /\ weather' = r.weather
              /\ weather_icon' = refreshed_icon(weather_icon, r.weather, icon_order)
              /\ last_checked' = now
              /\ refreshed' = TRUE
              /\ UNCHANGED exc
    /\ UNCHANGED <<envVars, icon_order, last_call, sensorVars, read_ok, frame, pushes,
                   dayHistory, shadowVars, icon_before, bar_prev>>

\* Lines 166-171: a fresh background, with the icon pasted when there is one.
Paste ==
    /\ pc = "paste"
    /\ frame' = [BlankFrame EXCEPT !.icon = weather_icon]
    /\ pc' = "sensor"
    /\ UNCHANGED <<exc, envVars, weatherVars, sensorVars, read_ok, pushes,
                   dayHistory, shadowVars, tickHistory, bar_prev>>

\* Lines 174-176 when get_sensor_data() returns true.
SensorOk ==
    /\ pc = "sensor"
    /\ \E t \in Temps : temp' = t
    /\ temp_bound' = TRUE
    /\ read_ok' = "yes"
    /\ day_changed' = (today # last_read_day)
    /\ last_read_day' = today
    /\ pc' = "daycheck"
    /\ UNCHANGED <<exc, envVars, weatherVars, low_temp, high_temp, curr_date, frame,
                   pushes, shadowVars, tickHistory, bar_prev>>

SensorFailSetsDate ==
    /\ pc = "sensor"
    /\ read_ok' = "no"
    /\ pc' = "clock"
    /\ curr_date' = DayOfMonth(today)
    /\ UNCHANGED <<exc, envVars, weatherVars, low_temp, high_temp, temp, temp_bound,
                   frame, pushes, dayHistory, shadowVars, tickHistory, bar_prev>>

\* Line 174 when get_sensor_data() returns false: the body of the if is skipped.
SensorFail ==
    /\ pc = "sensor"
    /\ read_ok' = "no"
    /\ pc' = "clock"
    /\ UNCHANGED <<exc, envVars, weatherVars, sensorVars, frame, pushes,
                   dayHistory, shadowVars, tickHistory, bar_prev>>

\* Lines 177-182: the day test, and the if/elif update on the same day.
DayCheck ==
    /\ pc = "daycheck"
    /\ IF DayOfMonth(today) = curr_date
       THEN /\ low_temp' = update_extremes(low_temp, high_temp, temp)[1]
            /\ high_temp' = update_extremes(low_temp, high_temp, temp)[2]
            /\ low2' = update_two_ifs(low2, high2, temp)[1]
            /\ high2' = update_two_ifs(low2, high2, temp)[2]
            /\ minR' = Min(minR, temp)
            /\ maxR' = Max(maxR, temp)
            /\ pc' = "text"
       ELSE /\ pc' = "reset"
            /\ UNCHANGED <<low_temp, high_temp, shadowVars>>
    /\ UNCHANGED <<exc, envVars, weatherVars, curr_date, temp, temp_bound, read_ok,
                   frame, pushes, dayHistory, tickHistory, bar_prev>>

\* Lines 183-185: the day is read again and the extremes restart at the reading.
Reset ==
    /\ pc = "reset"
    /\ curr_date' = DayOfMonth(today)
    /\ low_temp' = temp
    /\ high_temp' = temp
    /\ low2' = temp
    /\ high2' = temp
    /\ minR' = temp
    /\ maxR' = temp
    /\ pc' = "text"
    /\ UNCHANGED <<exc, envVars, weatherVars, temp, temp_bound, read_ok, frame,
                   pushes, dayHistory, tickHistory, bar_prev>>

\* Lines 188-197: pressure, temperature, max and min are written to the image.
Text ==
    /\ pc = "text"
    /\ frame' = [frame EXCEPT !.readout = <<temp, high_temp, low_temp>>]
    /\ pc' = "clock"
    /\ UNCHANGED <<exc, envVars, weatherVars, sensorVars, read_ok, pushes,
                   dayHistory, shadowVars, tickHistory, bar_prev>>

\* Lines 200-205: the clock, its separator blinking with the parity of the second.
DrawClock ==
    /\ pc = "clock"
    /\ frame' = [frame EXCEPT !.clock = IF now % 2 = 0 THEN "HH:MM" ELSE "HH MM"]
    /\ pc' = "bar"
    /\ UNCHANGED <<exc, envVars, weatherVars, sensorVars, read_ok, pushes,
                   dayHistory, shadowVars, tickHistory, bar_prev>>

\* Lines 208-210: the thermometer bar; reading temp before line 175 ever ran
\* raises NameError.
Bar ==
    /\ pc = "bar"
    /\ IF temp_bound
       THEN /\ frame' = [frame EXCEPT !.bar = <<temp_offset(temp)>>]
            /\ pc' = "display"
            /\ UNCHANGED exc
       ELSE /\ pc' = "raised"
            /\ exc' = "NameError"
            /\ UNCHANGED frame
    /\ UNCHANGED <<envVars, weatherVars, sensorVars, read_ok, pushes,
                   dayHistory, shadowVars, tickHistory, bar_prev>>

\* Line 213.
Display ==
    /\ pc = "display"
    /\ pushes' = pushes + 1
    /\ pc' = "sleep"
    /\ UNCHANGED <<exc, envVars, weatherVars, sensorVars, read_ok, frame,
                   dayHistory, shadowVars, tickHistory, bar_prev>>

\* Line 215, and back to the top of the loop.
Sleep ==
    /\ pc = "sleep"
    /\ pc' = "refresh"
    /\ UNCHANGED <<exc, envVars, weatherVars, sensorVars, read_ok, frame, pushes,
                   dayHistory, shadowVars, tickHistory, bar_prev>>

Next ==
    \/ Clock
    \/ Midnight
    \/ Refresh
    \/ FetchReturn
    \/ Paste
    \/ SensorOk
    \/ SensorFail
    \/ DayCheck
    \/ Reset
    \/ Text
    \/ DrawClock
    \/ Bar
    \/ Display
    \/ Sleep

Spec == Init /\ [][Next]_vars

----------------------------------------------------------------------------
(* get_weather_icon on its own: every snapshot, every iteration order. *)

Tokens(c) == {icon_map[c][i] : i \in 1..Len(icon_map[c])}

MappedTokens == UNION {Tokens(c) : c \in Categories}

\* Summary tokens that no list holds (category names among them).
UnmappedTokens == {"hail", "storm", "sun", "cloud", "Icon", "clear"}

Snapshots == {EmptyWeather} \cup
             {<< <<"summary", t>> >> : t \in MappedTokens \cup UnmappedTokens}

testVarsAtRest ==
    /\ exc = ""
    /\ now = 0
    /\ today = 0
    /\ last_checked = 0
    /\ last_call = 0
    /\ low_temp = RefLow
    /\ high_temp = RefLow
    /\ curr_date = DayOfMonth(0)
    /\ read_ok = "pending"
    /\ pushes = 0
    /\ last_read_day = 0
    /\ day_changed = FALSE
    /\ low2 = RefLow
    /\ high2 = RefLow
    /\ minR = RefLow
    /\ maxR = RefLow
    /\ refreshed = FALSE
    /\ icon_before = None
    /\ frame = BlankFrame
    /\ bar_prev = << >>

IconInit ==
    /\ testVarsAtRest
    /\ pc = "icon"
    /\ weather \in Snapshots
    /\ icon_order \in Orders
    /\ weather_icon = None
    /\ temp = 0
    /\ temp_bound = FALSE

\* Lines 110-122: one call of get_weather_icon.
IconCall ==
    /\ pc = "icon"
    /\ weather_icon' = get_weather_icon(weather, icon_order)
    /\ pc' = "icon_done"
    /\ UNCHANGED <<exc, envVars, weather, icon_order, last_checked, last_call,
                   sensorVars, read_ok, frame, pushes, dayHistory, shadowVars,
                   tickHistory, bar_prev>>

\* The caller passes the next snapshot.
IconAgain ==
    /\ pc = "icon_done"
    /\ \E w \in Snapshots : weather' = w
    /\ pc' = "icon"
    /\ UNCHANGED <<exc, envVars, weather_icon, icon_order, last_checked, last_call,
                   sensorVars, read_ok, frame, pushes, dayHistory, shadowVars,
                   tickHistory, bar_prev>>

IconNext == IconCall \/ IconAgain

SpecIcon == IconInit /\ [][IconNext]_vars

----------------------------------------------------------------------------
(* The thermometer bar on its own: lines 208-210 over a range of readings. *)

BarInit ==
    /\ testVarsAtRest
    /\ pc = "bar"
    /\ weather = EmptyWeather
    /\ icon_order = SourceOrder
    /\ weather_icon = None
    /\ temp \in BarTemps
    /\ temp_bound = TRUE

\* The next tick brings another reading to line 175.
BarAgain ==
    /\ pc = "display"
    /\ bar_prev' = <<temp, frame.bar[1]>>
    /\ \E t \in BarTemps : temp' = t
    /\ pc' = "bar"
    /\ UNCHANGED <<exc, envVars, weatherVars, low_temp, high_temp, curr_date,
                   temp_bound, read_ok, frame, pushes, dayHistory, shadowVars,
                   tickHistory>>

BarNext == Bar \/ BarAgain

SpecBar == BarInit /\ [][BarNext]_vars

----------------------------------------------------------------------------
(* Claims *)

AfterUpdate == {"text", "clock", "bar", "display", "sleep"}

\* C1: in every state low_temp <= high_temp, and after every successful sensor
\* read (once the extremes update of that tick has run) low_temp <= temp <= high_temp.
C1_ExtremesBoundTemp ==
    /\ low_temp <= high_temp
    /\ (read_ok = "yes" /\ pc \in AfterUpdate) =>
           (low_temp <= temp /\ temp <= high_temp)

C1_Witness ==
    /\ pc = "text"
    /\ read_ok = "yes"
    /\ low_temp < temp
    /\ temp < high_temp

C3_FailedReadTickCompletes ==
    read_ok = "no" =>
        /\ pc # "raised"
        /\ pc = "sleep" =>
               (frame.clock # "" /\ frame.icon = weather_icon /\ pushes = 1)

\* C4: every get_weather call of the loop starts more than 60 seconds after the
\* previous get_weather call (the startup call included) started.
C4_Throttle ==
    [][(pc = "refresh" /\ pc' = "fetching") => now' - last_call > 60]_vars

C4_Witness ==
    /\ pc = "fetching"
    /\ last_call > 2 * 60
    /\ last_checked > 60
    /\ last_checked < last_call

\* C5: after a successful read on a calendar day other than the day of the
\* previous successful read (or of startup), low_temp and high_temp both equal
\* that reading.
C5_RolloverResets ==
    (pc = "text" /\ day_changed) => (low_temp = temp /\ high_temp = temp)

GetWeatherErrors == {"IndexError", "TypeError", "KeyError"}

\* C6: get_weather never raises, whatever the response: the script is never
\* ended by an exception from the scraping of a malformed page.
C6_GetWeatherNeverRaises ==
    ~(pc = "raised" /\ exc \in GetWeatherErrors)

\* C7: get_weather_icon returns the icon of the one category whose list holds
\* the summary token, in any iteration order; None for a token in no list and
\* for an empty snapshot; and never the storm icon.
C7_IconMappingTotal ==
    pc = "icon_done" =>
        /\ weather_icon # icons["storm"]
        /\ IF Truthy(weather) /\ Lookup(weather, "summary") \in MappedTokens
           THEN \E c \in Categories :
                    /\ weather_icon = icons[c]
                    /\ \A d \in Categories :
                           Lookup(weather, "summary") \in Tokens(d) <=> d = c
           ELSE weather_icon = None

C7_Witness ==
    /\ pc = "icon_done"
    /\ weather = << <<"summary", "sleet">> >>
    /\ weather_icon = icons["snow"]
    /\ icon_order[1] = "wind"
    /\ icon_order[6] = "snow"

\* C8: the bar top is 86 - 43*(temp - 20)/12: 86 at 20 degrees, 43 at 32, 64.5 at
\* 26, strictly decreasing in temp, and within [43, 86] for temp in [20, 32].
\* frame.bar holds the position times BarDen.
C8_ThermometerLinear ==
    (pc = "display" /\ frame.bar # << >>) =>
        LET y == frame.bar[1] IN
        /\ 12 * y = (86 * 12 - 43 * (temp - 20)) * BarDen
        /\ temp = 20 => y = 86 * BarDen
        /\ temp = 32 => y = 43 * BarDen
        /\ temp = 26 => 2 * y = 129 * BarDen
        /\ (20 <= temp /\ temp <= 32) => (43 * BarDen <= y /\ y <= 86 * BarDen)
        /\ bar_prev # << >> =>
               /\ bar_prev[1] < temp => bar_prev[2] > y
               /\ bar_prev[1] > temp => bar_prev[2] < y

C8_Witness ==
    /\ pc = "display"
    /\ frame.bar # << >>
    /\ temp = 26
    /\ 2 * frame.bar[1] = 129 * BarDen
    /\ bar_prev # << >>
    /\ bar_prev[1] = 32

\* C9: no step of a tick whose sensor read fails changes low_temp, high_temp,
\* curr_date or temp: neither the steps before the read, nor the failed read,
\* nor the steps after it.
C9_FailedReadFrame ==
    [][(read_ok' = "no" \/ pc \in {"refresh", "fetching", "paste"})
           => UNCHANGED sensorVars]_vars

C9_Witness ==
    /\ pc = "sleep"
    /\ read_ok = "no"
    /\ DayOfMonth(today) # curr_date
    /\ today # last_read_day
    /\ refreshed
    /\ weather_icon # icon_before
    /\ last_checked > 60

\* C10: the if/elif update and the update with two independent ifs hold the same
\* bounds, both the minimum and maximum of the readings since the last reset,
\* and no reading awaiting the update is below low_temp and above high_temp.
C10_ElifEqualsTwoIfs ==
    /\ low_temp = low2
    /\ high_temp = high2
    /\ low_temp = minR
    /\ high_temp = maxR
    /\ pc = "daycheck" => ~(temp < low_temp /\ temp > high_temp)

C10_Witness ==
    /\ pc = "text"
    /\ read_ok = "yes"
    /\ ~day_changed
    /\ today > 0
    /\ low_temp < high_temp
    /\ temp = high_temp
    /\ frame.readout = << >>
    /\ low_temp + 1 < high_temp

====
